---- MODULE Spec2Model ----
(***************************************************************************)
(* Model of useragents-me-json: the table-to-record extraction engine      *)
(* (getTablesAsRecord and its converters), the file helpers                *)
(* (explainErrorCode, gracefullyAccessDirectory, gracefullyOpenFile) and   *)
(* the command-line entry point (ARGS, help check, main).                  *)
(*                                                                         *)
(* JavaScript strings are sequences of one-character strings, so that      *)
(* trim, toLowerCase, split and the regular-expression replacements are    *)
(* computed character by character.                                        *)
(***************************************************************************)
EXTENDS Integers, Sequences, FiniteSets, TLC

VARIABLES
    fn, args, ret,                       \* a call of one pure library function
    argv0, cliArgs, env, isESModule,     \* the process the entry module is loaded in
    pc, stdout, stderr, exitCode, calls, \* the entry module's progress and effects
    htmlText, json,                      \* the locals of getUserAgentsJson and main
    options, opc, fsCalls, openResult    \* a call of gracefullyOpenFile

vars == <<fn, args, ret, argv0, cliArgs, env, isESModule, pc, stdout, stderr,
          exitCode, calls, htmlText, json, options, opc, fsCalls, openResult>>

----------------------------------------------------------------------------
(* Bounds of the model *)

MaxContainers == 3
MaxHeaders == 2
MaxRows == 3
MaxCells == 2
MaxKeys == 2
MaxElems == 3
MaxIndex == 2

----------------------------------------------------------------------------
(* Strings *)

LowerAlpha == <<"a", "b", "c", "d", "e", "f", "g", "h", "i", "j", "k", "l", "m", "n", "o", "p", "q", "r", "s", "t", "u", "v", "w", "x", "y", "z">>
UpperAlpha == <<"A", "B", "C", "D", "E", "F", "G", "H", "I", "J", "K", "L", "M", "N", "O", "P", "Q", "R", "S", "T", "U", "V", "W", "X", "Y", "Z">>
DigitChars == <<"0", "1", "2", "3", "4", "5", "6", "7", "8", "9">>
WhiteSpace == {" ", "\t", "\n"}

Range(s) == {s[i] : i \in 1..Len(s)}
IsLower(c) == c \in Range(LowerAlpha)
IsUpper(c) == c \in Range(UpperAlpha)

\* String.prototype.toLowerCase / toUpperCase on one character
CharToLower(c) ==
    IF IsUpper(c) THEN LowerAlpha[CHOOSE i \in 1..26 : UpperAlpha[i] = c] ELSE c
CharToUpper(c) ==
    IF IsLower(c) THEN UpperAlpha[CHOOSE i \in 1..26 : LowerAlpha[i] = c] ELSE c

toLowerCase(s) == [i \in 1..Len(s) |-> CharToLower(s[i])]

RECURSIVE TrimStart(_)
TrimStart(s) ==
    IF s # <<>> /\ Head(s) \in WhiteSpace THEN TrimStart(Tail(s)) ELSE s

RECURSIVE TrimEnd(_)
TrimEnd(s) ==
    IF s # <<>> /\ s[Len(s)] \in WhiteSpace
    THEN TrimEnd(SubSeq(s, 1, Len(s) - 1)) ELSE s

\* String.prototype.trim
trim(s) == TrimEnd(TrimStart(s))

\* str.replace(/\s+/g, "-"): every maximal run of whitespace becomes one hyphen
RECURSIVE ReplaceWhitespaceRuns(_)
ReplaceWhitespaceRuns(s) ==
    IF s = <<>> THEN <<>>
    ELSE IF Head(s) \in WhiteSpace
         THEN <<"-">> \o ReplaceWhitespaceRuns(TrimStart(s))
         ELSE <<Head(s)>> \o ReplaceWhitespaceRuns(Tail(s))

\* str.replace(/\+/g, "and")
RECURSIVE ReplacePlus(_)
ReplacePlus(s) ==
    IF s = <<>> THEN <<>>
    ELSE IF Head(s) = "+"
         THEN <<"a", "n", "d">> \o ReplacePlus(Tail(s))
         ELSE <<Head(s)>> \o ReplacePlus(Tail(s))

\* str.replace(/-([a-z])/g, (_, char) => char.toUpperCase()): left to right,
\* matches do not overlap
RECURSIVE ReplaceHyphenLetter(_)
ReplaceHyphenLetter(s) ==
    IF s = <<>> THEN <<>>
    ELSE IF Head(s) = "-" /\ Len(s) >= 2 /\ IsLower(s[2])
         THEN <<CharToUpper(s[2])>> \o ReplaceHyphenLetter(SubSeq(s, 3, Len(s)))
         ELSE <<Head(s)>> \o ReplaceHyphenLetter(Tail(s))

\* Number to its decimal string, as a template literal prints it
RECURSIVE NumberToString(_)
NumberToString(n) ==
    IF n < 10 THEN <<DigitChars[n + 1]>>
    ELSE NumberToString(n \div 10) \o <<DigitChars[(n % 10) + 1]>>

\* String.prototype.split(separator) for a one-character separator
RECURSIVE SplitFrom(_, _, _)
SplitFrom(s, sep, piece) ==
    IF s = <<>> THEN <<piece>>
    ELSE IF Head(s) = sep
         THEN <<piece>> \o SplitFrom(Tail(s), sep, <<>>)
         ELSE SplitFrom(Tail(s), sep, Append(piece, Head(s)))

split(s, sep) == SplitFrom(s, sep, <<>>)

\* Array.prototype.includes
includes(arr, x) == \E i \in 1..Len(arr) : arr[i] = x

\* All sequences over S of length at most n
SeqsUpTo(S, n) == UNION {[1..k -> S] : k \in 0..n}

----------------------------------------------------------------------------
(* DOM elements as the extraction reads them *)

\* querySelector found nothing
NullElement ==
    [isNull |-> TRUE, hasIdAttr |-> FALSE, idAttr |-> <<>>, textContent |-> <<>>]

Element(hasId, id, text) ==
    [isNull |-> FALSE, hasIdAttr |-> hasId, idAttr |-> id, textContent |-> text]

\* Element.id reflects the id attribute; it is "" when the attribute is absent
ElementId(element) == IF element.hasIdAttr THEN element.idAttr ELSE <<>>

NullTable == [isNull |-> TRUE, headers |-> <<>>, rows |-> <<>>]

\* headers: the elements headerSelector finds; rows: per row the elements
\* cellSelector finds
Table(headers, rows) == [isNull |-> FALSE, headers |-> headers, rows |-> rows]

\* idElement: container.querySelector(idElementSelector);
\* table: container.querySelector(tableSelector)
Container(idElement, table) == [idElement |-> idElement, table |-> table]

----------------------------------------------------------------------------
(* String converters *)

kebabCaseToCamelCase(str) == ReplaceHyphenLetter(toLowerCase(trim(str)))

textContentConverter(element) ==
    IF element.isNull THEN <<>> ELSE trim(element.textContent)

\* the header converter without the replacement of "+" by "and"
textContentToCamelCaseConverter_NoPlus(element) ==
    kebabCaseToCamelCase(ReplaceWhitespaceRuns(textContentConverter(element)))

textContentToCamelCaseConverter(element) ==
    kebabCaseToCamelCase(
        ReplacePlus(ReplaceWhitespaceRuns(textContentConverter(element))))

\* element?.id ?? `table${index}`: the fallback is taken only when element is
\* null; a present element always has a string id
idToCamelCaseConverter(element, index) ==
    kebabCaseToCamelCase(
        IF element.isNull
        THEN <<"t", "a", "b", "l", "e">> \o NumberToString(index)
        ELSE ElementId(element))

\* A converter passed as a function value is named and applied here
ApplyConverter(converter, element, index) ==
    CASE converter = "textContentConverter" -> textContentConverter(element)
      [] converter = "textContentToCamelCaseConverter" ->
            textContentToCamelCaseConverter(element)
      [] converter = "idToCamelCaseConverter" ->
            idToCamelCaseConverter(element, index)

----------------------------------------------------------------------------
(* Key/value mapper, table converter, document extractor *)

\* A JavaScript object with string keys is a function on a set of strings
EmptyObject == [k \in {} |-> <<>>]

\* { ...acc, [key]: value }
WithProperty(acc, key, value) == (key :> value) @@ acc

\* keys[index] used as a computed property name: an index past the end reads
\* undefined, which names the property "undefined"
PropertyKeyAt(keys, index) ==
    IF index + 1 <= Len(keys) THEN keys[index + 1]
    ELSE <<"u", "n", "d", "e", "f", "i", "n", "e", "d">>

\* elements.reduce((acc, element, index) => ..., {}) from position index on
RECURSIVE MapperReduce(_, _, _, _, _)
MapperReduce(acc, keys, elements, valueConverter, index) ==
    IF index >= Len(elements) THEN acc
    ELSE MapperReduce(
            WithProperty(acc, PropertyKeyAt(keys, index),
                         ApplyConverter(valueConverter, elements[index + 1], index)),
            keys, elements, valueConverter, index + 1)

keysAndElementsMapper(keys, elements, valueConverter) ==
    MapperReduce(EmptyObject, keys, elements, valueConverter, 0)

ApplyMapper(mapper, keys, elements, valueConverter) ==
    CASE mapper = "keysAndElementsMapper" ->
            keysAndElementsMapper(keys, elements, valueConverter)

\* Array.from(table.querySelectorAll(headerSelector), (th, index) => ...)
TableHeaders(table, opts) ==
    [i \in 1..Len(table.headers) |->
        ApplyConverter(opts.headerKeyConverter, table.headers[i], i - 1)]

\* the row reducer without the cell-count test
RowReducer_KeepsEveryRow(acc, cells, headers, opts) ==
    Append(acc, ApplyMapper(opts.keysAndElementsMapper, headers, cells,
                            opts.cellValueConverter))

\* the reducer of convertTableToRecordArray: one row's cells
RowReducer(acc, cells, headers, opts) ==
    IF Len(cells) = Len(headers)
    THEN Append(acc, ApplyMapper(opts.keysAndElementsMapper, headers, cells,
                                 opts.cellValueConverter))
    ELSE acc

RECURSIVE RowsReduce(_, _, _, _)
RowsReduce(acc, rows, headers, opts) ==
    IF rows = <<>> THEN acc
    ELSE RowsReduce(RowReducer(acc, Head(rows), headers, opts),
                    Tail(rows), headers, opts)

convertTableToRecordArray(table, opts) ==
    RowsReduce(<<>>, table.rows, TableHeaders(table, opts), opts)

defaultOptions ==
    [headerKeyConverter |-> "textContentToCamelCaseConverter",
     cellValueConverter |-> "textContentConverter",
     tableKeyConverter |-> "idToCamelCaseConverter",
     keysAndElementsMapper |-> "keysAndElementsMapper"]

\* the container mapping numbering only the containers that hold a table
ContainerEntries_IndexAmongTables(root, opts) ==
    [i \in 1..Len(root) |->
        [id |-> ApplyConverter(opts.tableKeyConverter, root[i].idElement,
                               Cardinality({j \in 1..(i - 1) : ~root[j].table.isNull})),
         table |-> root[i].table]]

\* Array.from(root.querySelectorAll(scopeSelector), (container, index) => [id, table])
ContainerEntries(root, opts) ==
    [i \in 1..Len(root) |->
        [id |-> ApplyConverter(opts.tableKeyConverter, root[i].idElement, i - 1),
         table |-> root[i].table]]

\* the table reducer keeping the first entry written under a key
TablesReducer_FirstWins(acc, entry, opts) ==
    IF ~entry.table.isNull /\ entry.id \notin DOMAIN acc
    THEN WithProperty(acc, entry.id, convertTableToRecordArray(entry.table, opts))
    ELSE acc

\* the reducer of getTablesAsRecord: one [id, table] pair
TablesReducer(acc, entry, opts) ==
    IF ~entry.table.isNull
    THEN WithProperty(acc, entry.id, convertTableToRecordArray(entry.table, opts))
    ELSE acc

RECURSIVE TablesReduce(_, _, _)
TablesReduce(acc, entries, opts) ==
    IF entries = <<>> THEN acc
    ELSE TablesReduce(TablesReducer(acc, Head(entries), opts), Tail(entries), opts)

\* root: the containers scopeSelector finds under options.root, in document order
getTablesAsRecord(root, opts) ==
    TablesReduce(EmptyObject, ContainerEntries(root, opts), opts)

----------------------------------------------------------------------------
(* explainErrorCode *)

\* The properties of Node's os.constants; the errno numbers live one level
\* down, in os.constants.errno
osConstants ==
    [UV_UDP_REUSEADDR |-> "4", dlopen |-> "[object Object]",
     errno |-> "[object Object]", priority |-> "[object Object]",
     signals |-> "[object Object]"]

\* const { EACCES, ENOENT, ... } = os.constants: a value is held as the
\* property name it gives when used as a computed key; a name os.constants
\* does not have reads undefined
OsConstant(name) ==
    IF name \in DOMAIN osConstants THEN osConstants[name] ELSE "undefined"

\* the object literal of explainErrorCode, its computed keys written in order
ErrorMessages ==
    LET m0 == [k \in {} |-> ""]
        m1 == WithProperty(m0, OsConstant("ENOENT"), "No such file or directory")
        m2 == WithProperty(m1, OsConstant("EACCES"), "Permission denied")
        m3 == WithProperty(m2, OsConstant("EAGAIN"), "Resource temporarily unavailable")
        m4 == WithProperty(m3, OsConstant("EBUSY"), "Resource busy or locked")
        m5 == WithProperty(m4, OsConstant("EEXIST"), "File or directory already exists")
        m6 == WithProperty(m5, OsConstant("EINVAL"), "Invalid argument")
        m7 == WithProperty(m6, OsConstant("EIO"), "I/O error")
    IN m7

\* error.code of a file-system error is the code's name; an Error without a
\* code property reads undefined
FsError(code) == [isError |-> TRUE, hasCode |-> TRUE, code |-> code]
PlainError == [isError |-> TRUE, hasCode |-> FALSE, code |-> ""]

explainErrorCode(error) ==
    LET key == IF error.hasCode THEN error.code ELSE "undefined"
    IN IF key \in DOMAIN ErrorMessages THEN ErrorMessages[key]
       ELSE "Error accessing file or directory"

----------------------------------------------------------------------------
(* Inputs of the library calls *)

TextDevice == <<"D", "e", "v", "i", "c", "e">>
TextOsAmpBrowser == <<"O", "S", " ", "&", " ", "B", "r", "o", "w", "s", "e", "r">>
TextOsPlusBrowser == <<"O", "S", " ", "+", " ", "B", "r", "o", "w", "s", "e", "r">>
TextUseragent == <<"U", "s", "e", "r", "a", "g", "e", "n", "t">>
TextLatestIpod == <<"L", "a", "t", "e", "s", "t", " ", "I", "p", "o", "d", " ", "U", "s", "e", "r", "a", "g", "e", "n", "t", "s">>
IdLatestIpod == <<"l", "a", "t", "e", "s", "t", "-", "i", "p", "o", "d", "-", "u", "s", "e", "r", "a", "g", "e", "n", "t", "s">>
TextIpod == <<" ", "i", "P", "o", "d", " ">>
TextSafari == <<"S", "a", "f", "a", "r", "i">>
TextMozilla == <<"M", "o", "z", "i", "l", "l", "a">>

Th(text) == Element(FALSE, <<>>, text)
Td(text) == Element(FALSE, <<>>, text)

HeaderPool == {Th(TextDevice), Th(TextOsPlusBrowser)}

\* rows of up to MaxCells cells whose texts alternate, starting with either
RowInputs ==
    {[j \in 1..n |-> IF (first + j) % 2 = 0 THEN Td(TextIpod) ELSE Td(TextSafari)] :
        n \in 0..MaxCells, first \in 0..1}

\* the tables given to convertTableToRecordArray
TableInputs ==
    {Table(h, r) : h \in SeqsUpTo(HeaderPool, MaxHeaders),
                   r \in SeqsUpTo(RowInputs, MaxRows)}

\* the id elements a container may hold: none, an h2 without an id attribute,
\* an h2 with an id
IdElementPool ==
    {NullElement,
     Element(FALSE, <<>>, TextLatestIpod),
     Element(TRUE, IdLatestIpod, TextLatestIpod),
     Element(TRUE, <<"T", "a", "b", "l", "e", "1">>, TextDevice)}

TableA == Table(<<Th(TextDevice)>>, <<<<Td(TextIpod)>>, <<Td(TextSafari)>>>>)
TableB == Table(<<Th(TextDevice), Th(TextOsPlusBrowser)>>,
                <<<<Td(TextSafari), Td(TextIpod)>>, <<Td(TextIpod)>>>>)

ContainerPool ==
    {Container(e, t) : e \in IdElementPool, t \in {NullTable, TableA, TableB}}

\* the end-to-end scenario of the specification: an h2 that has only its text,
\* and an "OS & Browser" header
ScenarioTable(osHeader) ==
    Table(<<Th(TextDevice), Th(osHeader), Th(TextUseragent)>>,
          <<<<Td(TextIpod), Td(TextSafari), Td(TextMozilla)>>,
            <<Td(TextSafari), Td(TextIpod), Td(TextMozilla)>>>>)

ScenarioDocument ==
    <<Container(Element(FALSE, <<>>, TextLatestIpod),
                ScenarioTable(TextOsAmpBrowser))>>

\* the same page as useragents.me serves it: the h2 carries the id, the header
\* reads "OS + Browser"
SiteDocument ==
    <<Container(Element(TRUE, IdLatestIpod, TextLatestIpod),
                ScenarioTable(TextOsPlusBrowser))>>

DocumentInputs ==
    SeqsUpTo(ContainerPool, MaxContainers) \cup {ScenarioDocument, SiteDocument}

KeyPool == {<<"d", "e", "v", "i", "c", "e">>, <<"o", "s">>}
MapperElementPool == {Td(TextIpod), Td(TextSafari), NullElement}

MapperInputs ==
    [keys : SeqsUpTo(KeyPool, MaxKeys),
     elements : SeqsUpTo(MapperElementPool, MaxElems),
     valueConverter : {"textContentConverter", "idToCamelCaseConverter"}]

IdConverterInputs == [element : IdElementPool, index : 0..MaxIndex]

ErrorInputs ==
    {FsError(c) : c \in {"ENOENT", "EACCES", "EAGAIN", "EBUSY", "EEXIST",
                         "EINVAL", "EIO", "EPERM", "ENOSPC"}} \cup {PlainError}

----------------------------------------------------------------------------
(* Specification Spec: one call of a library function on any input *)

NotReturned == [returned |-> FALSE, value |-> <<>>]
Returned(v) == [returned |-> TRUE, value |-> v]

\* no page fetched yet; a fetched page, held as the document JSDOM parses it
\* to; a rejected fetch, held as the Error the catch handler returns
NoHtml == [isError |-> FALSE, fetched |-> FALSE, document |-> <<>>]
HtmlOf(document) == [isError |-> FALSE, fetched |-> TRUE, document |-> document]
FetchError == [isError |-> TRUE, fetched |-> FALSE, document |-> <<>>]

\* the options of gracefullyOpenFile with their defaults filled in
defaultOpenOptions ==
    [createFile |-> TRUE, skipDirectoryCheck |-> FALSE,
     createDirectory |-> TRUE, recursive |-> TRUE]

\* what a file-system promise settles to: nothing (undefined), a file handle,
\* or an Error with its code
NoResult == [isError |-> FALSE, hasCode |-> FALSE, code |-> ""]
FileHandle == [isError |-> FALSE, hasCode |-> FALSE, code |-> "FileHandle"]

\* the entry module is not running
CliIdle ==
    /\ argv0 = <<>> /\ cliArgs = <<>> /\ env = <<>> /\ isESModule = FALSE
    /\ pc = "idle" /\ stdout = <<>> /\ stderr = <<>> /\ exitCode = -1
    /\ calls = <<>> /\ htmlText = NoHtml /\ json = EmptyObject

\* gracefullyOpenFile is not running
OpenIdle ==
    /\ options = defaultOpenOptions /\ opc = "idle" /\ fsCalls = <<>>
    /\ openResult = NoResult

NoCall == fn = "none" /\ args = <<>> /\ ret = NotReturned

Init ==
    /\ \/ fn = "keysAndElementsMapper" /\ args \in MapperInputs
       \/ fn = "convertTableToRecordArray" /\ args \in [table : TableInputs]
       \/ fn = "getTablesAsRecord" /\ args \in [root : DocumentInputs]
       \/ fn = "idToCamelCaseConverter" /\ args \in IdConverterInputs
       \/ fn = "explainErrorCode" /\ args \in [error : ErrorInputs]
    /\ ret = NotReturned
    /\ CliIdle
    /\ OpenIdle

cliVars == <<argv0, cliArgs, env, isESModule, pc, stdout, stderr, exitCode,
             calls, htmlText, json>>
openVars == <<options, opc, fsCalls, openResult>>

Return(f, v) ==
    /\ fn = f
    /\ ~ret.returned
    /\ ret' = Returned(v)
    /\ UNCHANGED <<fn, args, cliVars, openVars>>

CallKeysAndElementsMapper ==
    Return("keysAndElementsMapper",
           keysAndElementsMapper(args.keys, args.elements, args.valueConverter))

CallConvertTableToRecordArray ==
    Return("convertTableToRecordArray",
           convertTableToRecordArray(args.table, defaultOptions))

CallGetTablesAsRecord ==
    Return("getTablesAsRecord", getTablesAsRecord(args.root, defaultOptions))

CallIdToCamelCaseConverter ==
    Return("idToCamelCaseConverter",
           idToCamelCaseConverter(args.element, args.index))

CallExplainErrorCode ==
    Return("explainErrorCode", explainErrorCode(args.error))

Next ==
    \/ CallKeysAndElementsMapper
    \/ CallConvertTableToRecordArray
    \/ CallGetTablesAsRecord
    \/ CallIdToCamelCaseConverter
    \/ CallExplainErrorCode

Spec == Init /\ [][Next]_vars

----------------------------------------------------------------------------
(* Properties of the library calls (specification Spec) *)

Min(a, b) == IF a <= b THEN a ELSE b

KeyLatestIpod == <<"l", "a", "t", "e", "s", "t", "I", "p", "o", "d", "U", "s", "e", "r", "a", "g", "e", "n", "t", "s">>
KeyDevice == <<"d", "e", "v", "i", "c", "e">>
KeyOsAndBrowser == <<"o", "s", "A", "n", "d", "B", "r", "o", "w", "s", "e", "r">>
KeyUseragent == <<"u", "s", "e", "r", "a", "g", "e", "n", "t">>

Called(f) == fn = f /\ ret.returned

\* the header keys of a table under the default header converter
HeaderKeysOf(table) ==
    [i \in 1..Len(table.headers) |->
        textContentToCamelCaseConverter(table.headers[i])]

\* the rows of a table that have as many cells as the table has header cells
MatchingRows(table) ==
    SelectSeq(table.rows, LAMBDA cells : Len(cells) = Len(table.headers))

\* the complete record of one matching row: every header key, holding the
\* trimmed text of the last cell under that key
RecordOfRow(table, cells) ==
    LET keys == HeaderKeysOf(table)
    IN [k \in Range(keys) |->
          LET last == CHOOSE j \in 1..Len(keys) :
                          /\ keys[j] = k
                          /\ \A l \in (j + 1)..Len(keys) : keys[l] # k
          IN trim(cells[last].textContent)]

\* C1: convertTableToRecordArray returns exactly one complete record per row
\* whose cell count equals the header-cell count, in the document order of
\* those rows, and nothing for any other row.
C1_OneRecordPerMatchingRow ==
    Called("convertTableToRecordArray") =>
        LET rows == MatchingRows(args.table)
        IN /\ Len(ret.value) = Len(rows)
           /\ \A k \in 1..Len(rows) :
                 ret.value[k] = RecordOfRow(args.table, rows[k])

\* a table where a row is dropped between two kept rows that give different
\* records
C1_Witness ==
    /\ Called("convertTableToRecordArray")
    /\ Len(args.table.headers) = 2
    /\ Len(args.table.rows) = 3
    /\ Len(args.table.rows[2]) # 2
    /\ Len(ret.value) = 2
    /\ ret.value[1] # ret.value[2]

\* C3: keysAndElementsMapper has an entry exactly for the indices in range of
\* both sequences, holding converter(elements[i], i) under keys[i] (the last
\* such i where keys repeat), and none for an out-of-range key.
C3_OnlyPairedIndices ==
    Called("keysAndElementsMapper") =>
        LET n == Min(Len(args.keys), Len(args.elements))
        IN /\ DOMAIN ret.value = {args.keys[i] : i \in 1..n}
           /\ \A i \in 1..n :
                 (\A j \in (i + 1)..n : args.keys[j] # args.keys[i]) =>
                     ret.value[args.keys[i]] =
                         ApplyConverter(args.valueConverter, args.elements[i], i - 1)

\* C4: idToCamelCaseConverter returns the camelCased id when the element
\* carries an id attribute and table<index> otherwise, whether the element is
\* missing or present without an id attribute.
C4_IdOrFallback ==
    Called("idToCamelCaseConverter") =>
        IF ~args.element.isNull /\ args.element.hasIdAttr
        THEN ret.value = kebabCaseToCamelCase(args.element.idAttr)
        ELSE ret.value = <<"t", "a", "b", "l", "e">> \o NumberToString(args.index)

\* the result holds exactly the key latestIpodUseragents, with two records of
\* exactly the fields device, osAndBrowser and useragent
IsIpodResult(result) ==
    /\ DOMAIN result = {KeyLatestIpod}
    /\ Len(result[KeyLatestIpod]) = 2
    /\ \A k \in 1..2 :
          DOMAIN result[KeyLatestIpod][k] = {KeyDevice, KeyOsAndBrowser, KeyUseragent}

\* C5 as stated: the document whose h2 has the text "Latest Ipod Useragents"
\* and whose headers are "Device", "OS & Browser", "Useragent" gives the key
\* latestIpodUseragents with fields device, osAndBrowser, useragent.
C5_ScenarioAsStated ==
    (Called("getTablesAsRecord") /\ args.root = ScenarioDocument) =>
        IsIpodResult(ret.value)

\* C5 amended: the document whose h2 has the id "latest-ipod-useragents" and
\* whose headers are "Device", "OS + Browser", "Useragent" gives the key
\* latestIpodUseragents with two records of the fields device, osAndBrowser,
\* useragent.
C5_ScenarioWithIdAndPlus ==
    (Called("getTablesAsRecord") /\ args.root = SiteDocument) =>
        IsIpodResult(ret.value)

C5_Witness ==
    /\ Called("getTablesAsRecord")
    /\ args.root = SiteDocument
    /\ KeyLatestIpod \in DOMAIN ret.value

\* the table key of the container at position i (1-based) of a document
TableKeyOf(root, i) == idToCamelCaseConverter(root[i].idElement, i - 1)
HasTable(root, i) == ~root[i].table.isNull

\* the records of a table under the default converters
RecordsOf(table) ==
    [k \in 1..Len(MatchingRows(table)) |->
        RecordOfRow(table, MatchingRows(table)[k])]

\* C6: under each key the result holds the rows of the last container, in
\* document order, that has a table and yields that key.
C6_LastContainerWins ==
    Called("getTablesAsRecord") =>
        \A j \in 1..Len(args.root) :
            (/\ HasTable(args.root, j)
             /\ \A l \in (j + 1)..Len(args.root) :
                   ~(HasTable(args.root, l)
                     /\ TableKeyOf(args.root, l) = TableKeyOf(args.root, j)))
            => /\ TableKeyOf(args.root, j) \in DOMAIN ret.value
               /\ ret.value[TableKeyOf(args.root, j)] = RecordsOf(args.root[j].table)

\* two containers with different tables yield the same key, next to a
\* container with a key of its own
C6_Witness ==
    /\ Called("getTablesAsRecord")
    /\ Len(args.root) = 3
    /\ \A i \in 1..3 : HasTable(args.root, i)
    /\ TableKeyOf(args.root, 1) = TableKeyOf(args.root, 2)
    /\ TableKeyOf(args.root, 3) # TableKeyOf(args.root, 1)
    /\ RecordsOf(args.root[1].table) # RecordsOf(args.root[2].table)
    /\ ret.value[TableKeyOf(args.root, 2)] = RecordsOf(args.root[2].table)

\* C7: explainErrorCode gives each listed code its own message and every
\* other code the generic message.
C7_ExpectedMessage(code) ==
    CASE code = "ENOENT" -> "No such file or directory"
      [] code = "EACCES" -> "Permission denied"
      [] code = "EAGAIN" -> "Resource temporarily unavailable"
      [] code = "EBUSY" -> "Resource busy or locked"
      [] code = "EEXIST" -> "File or directory already exists"
      [] code = "EINVAL" -> "Invalid argument"
      [] code = "EIO" -> "I/O error"
      [] OTHER -> "Error accessing file or directory"

\* C7: every file-system error is explained by the message of its code.
C7_MessageByCode ==
    (Called("explainErrorCode") /\ args.error.hasCode) =>
        ret.value = C7_ExpectedMessage(args.error.code)

\* C9: the keys of the result are exactly the keys of the containers that
\* have a table, each computed with the container's position among all
\* containers; a container without a table adds nothing, removes nothing and
\* shifts no fallback index.
C9_TablelessContainerSkipped ==
    Called("getTablesAsRecord") =>
        LET root == args.root
            withTable == {i \in 1..Len(root) : HasTable(root, i)}
        IN /\ DOMAIN ret.value = {TableKeyOf(root, i) : i \in withTable}
           /\ \A i \in withTable :
                 root[i].idElement.isNull =>
                     (<<"t", "a", "b", "l", "e">> \o NumberToString(i - 1))
                         \in DOMAIN ret.value
           /\ \A i \in (1..Len(root)) \ withTable :
                 \A j \in withTable :
                     (/\ j < i
                      /\ TableKeyOf(root, j) = TableKeyOf(root, i)
                      /\ \A l \in withTable :
                            l > j => TableKeyOf(root, l) # TableKeyOf(root, j))
                     => ret.value[TableKeyOf(root, j)] = RecordsOf(root[j].table)

\* a container without a table follows one with a table and the same key, and
\* is followed by a container keyed by its position
C9_Witness ==
    /\ Called("getTablesAsRecord")
    /\ Len(args.root) = 3
    /\ HasTable(args.root, 1) /\ ~HasTable(args.root, 2) /\ HasTable(args.root, 3)
    /\ TableKeyOf(args.root, 1) = TableKeyOf(args.root, 2)
    /\ args.root[3].idElement.isNull
    /\ DOMAIN ret.value = {TableKeyOf(args.root, 1), <<"t", "a", "b", "l", "e", "2">>}

----------------------------------------------------------------------------
(* gracefullyOpenFile, one action per awaited file-system call *)

FsErrorCodes == {"ENOENT", "EACCES"}
FsErrors == {FsError(c) : c \in FsErrorCodes}

\* a file-system call as the log holds it: started, then settled with undefined
\* or with an Error
Pending(op, target) == [op |-> op, target |-> target, settled |-> FALSE, result |-> NoResult]
Settle(log, outcome) ==
    [log EXCEPT ![Len(log)] = [@ EXCEPT !.settled = TRUE, !.result = outcome]]

openFrame == <<fn, args, ret, cliVars, options>>

\* the synchronous start: skipDirectoryCheck || await gracefullyAccessDirectory(...)
OpenStart ==
    /\ opc = "start"
    /\ IF options.skipDirectoryCheck
       THEN /\ fsCalls' = Append(fsCalls, Pending("access", "file"))
            /\ opc' = "awaitFileAccess"
       ELSE /\ fsCalls' = Append(fsCalls, Pending("access", "directory"))
            /\ opc' = "awaitDirectoryAccess"
    /\ UNCHANGED <<openFrame, openResult>>

\* DirectoryAccessSettles going on to the file after a failed directory check
DirectoryAccessSettles_GoesOn ==
    \E outcome \in {NoResult} \cup FsErrors :
        /\ opc = "awaitDirectoryAccess"
        /\ IF outcome.isError /\ options.createDirectory
           THEN /\ fsCalls' = Append(Settle(fsCalls, outcome), Pending("mkdir", "directory"))
                /\ opc' = "awaitMkdir"
           ELSE /\ fsCalls' = Append(Settle(fsCalls, outcome), Pending("access", "file"))
                /\ opc' = "awaitFileAccess"
        /\ UNCHANGED <<openFrame, openResult>>

\* gracefullyAccessDirectory after fs.access(directory, F_OK) settles, and
\* gracefullyOpenFile after it when it returns at once
DirectoryAccessSettles ==
    \E outcome \in {NoResult} \cup FsErrors :
        /\ opc = "awaitDirectoryAccess"
        /\ IF outcome.isError /\ options.createDirectory
           THEN /\ fsCalls' = Append(Settle(fsCalls, outcome), Pending("mkdir", "directory"))
                /\ opc' = "awaitMkdir"
                /\ UNCHANGED openResult
           ELSE IF outcome.isError
                THEN /\ fsCalls' = Settle(fsCalls, outcome)
                     /\ openResult' = outcome
                     /\ opc' = "returned"
                ELSE /\ fsCalls' = Append(Settle(fsCalls, outcome), Pending("access", "file"))
                     /\ opc' = "awaitFileAccess"
                     /\ UNCHANGED openResult
        /\ UNCHANGED openFrame

\* fs.mkdir settles: a rejection reaches the catch handler of gracefullyOpenFile
MkdirSettles ==
    \E outcome \in {NoResult} \cup FsErrors :
        /\ opc = "awaitMkdir"
        /\ IF outcome.isError
           THEN /\ fsCalls' = Settle(fsCalls, outcome)
                /\ openResult' = outcome
                /\ opc' = "returned"
           ELSE /\ fsCalls' = Append(Settle(fsCalls, outcome), Pending("access", "file"))
                /\ opc' = "awaitFileAccess"
                /\ UNCHANGED openResult
        /\ UNCHANGED openFrame

\* fs.access(filePath, W_OK) settles
FileAccessSettles ==
    \E outcome \in {NoResult} \cup FsErrors :
        /\ opc = "awaitFileAccess"
        /\ IF outcome.isError /\ ~options.createFile
           THEN /\ fsCalls' = Settle(fsCalls, outcome)
                /\ openResult' = outcome
                /\ opc' = "returned"
           ELSE /\ fsCalls' = Append(Settle(fsCalls, outcome), Pending("open", "file"))
                /\ opc' = "awaitOpen"
                /\ UNCHANGED openResult
        /\ UNCHANGED openFrame

\* fs.open(filePath, "w+").catch((err) => err) settles
OpenSettles ==
    \E outcome \in {FileHandle} \cup FsErrors :
        /\ opc = "awaitOpen"
        /\ fsCalls' = Settle(fsCalls, outcome)
        /\ openResult' = outcome
        /\ opc' = "returned"
        /\ UNCHANGED openFrame

OpenOptions ==
    [createFile : BOOLEAN, skipDirectoryCheck : BOOLEAN,
     createDirectory : BOOLEAN, recursive : BOOLEAN]

InitOpen ==
    /\ NoCall
    /\ CliIdle
    /\ options \in OpenOptions
    /\ opc = "start"
    /\ fsCalls = <<>>
    /\ openResult = NoResult

NextOpen ==
    \/ OpenStart
    \/ DirectoryAccessSettles
    \/ MkdirSettles
    \/ FileAccessSettles
    \/ OpenSettles

SpecOpen == InitOpen /\ [][NextOpen]_vars

----------------------------------------------------------------------------
(* The entry module: ARGS, the help check, getUserAgentsJson and main *)

FlagHelp == <<"-", "-", "h", "e", "l", "p">>
FlagH == <<"-", "h">>
FlagPretty == <<"-", "-", "p", "r", "e", "t", "t", "y">>
FlagP == <<"-", "p">>

\* process.argv0.split(2): the separator 2 is converted to the string "2"
ARGS == split(argv0, "2")

\* PRETTIFY_JSON from the environment, defaulting to the -p / --pretty test
\* on ARGS; ["true", true].includes(PRETTIFY_JSON) ? 4 : 0
jsonIndent ==
    LET pretty == IF env.PRETTIFY_JSON = "unset"
                  THEN includes(ARGS, FlagP) \/ includes(ARGS, FlagPretty)
                  ELSE env.PRETTIFY_JSON = "true"
    IN IF pretty THEN 4 ELSE 0

HelpRequested == includes(ARGS, FlagHelp) \/ includes(ARGS, FlagH)

\* typeof require is "undefined" in an ES module, so isCommonJS is false
isRunningAsCli == FALSE \/ isESModule

StdoutLine(kind, value, indent) == [kind |-> kind, value |-> value, indent |-> indent]
StderrLine(kind, message) == [kind |-> kind, message |-> message]

\* process.exit(code)
Exit(code) == exitCode' = code /\ pc' = "exited"

cliInputs == <<argv0, cliArgs, env, isESModule>>
callVars == <<fn, args, ret>>

\* printUsage(); process.exit(0)
HelpExit ==
    /\ pc = "load"
    /\ HelpRequested
    /\ stdout' = Append(stdout, StdoutLine("usage", EmptyObject, 0))
    /\ Exit(0)
    /\ UNCHANGED <<callVars, cliInputs, stderr, calls, htmlText, json, openVars>>

\* main(USERAGENTS_URL, OUTPUT_FILE, jsonIndent) up to the await of fetch
StartMain ==
    /\ pc = "load"
    /\ ~HelpRequested
    /\ isRunningAsCli
    /\ calls' = calls \o <<"main", "getUserAgentsJson", "fetchHtml">>
    /\ pc' = "awaitFetch"
    /\ UNCHANGED <<callVars, cliInputs, stdout, stderr, exitCode, htmlText, json, openVars>>

\* the module was imported and main is not called
LoadAsLibrary ==
    /\ pc = "load"
    /\ ~HelpRequested
    /\ ~isRunningAsCli
    /\ pc' = "loaded"
    /\ UNCHANGED <<callVars, cliInputs, stdout, stderr, exitCode, calls, htmlText,
                   json, openVars>>

\* new JSDOM(htmlText).window.document, as the containers under it: an Error
\* is converted to its string, a text without any element
JSDOM(html) == IF html.isError THEN <<>> ELSE html.document

\* getUserAgentsJson from its second line on, and main up to its next await
AfterFetch(html) ==
    LET result == getTablesAsRecord(JSDOM(html), defaultOptions)
    IN /\ htmlText' = html
       /\ json' = result
       /\ IF env.OUTPUT_FILE = ""
          THEN /\ calls' = calls \o <<"JSDOM", "getTablesAsRecord">>
               /\ stdout' = Append(stdout, StdoutLine("json", result, jsonIndent))
               /\ Exit(0)
               /\ UNCHANGED openVars
          ELSE /\ calls' = calls \o <<"JSDOM", "getTablesAsRecord", "gracefullyOpenFile">>
               /\ options' = defaultOpenOptions
               /\ opc' = "start"
               /\ pc' = "awaitOpenFile"
               /\ UNCHANGED <<stdout, exitCode, fsCalls, openResult>>
       /\ UNCHANGED <<callVars, cliInputs, stderr>>

\* the pages fetch may deliver
FetchedDocuments == {<<>>, SiteDocument, <<Container(NullElement, TableA)>>}

\* fetch(url) and response.text() fulfil
FetchFulfilled ==
    \E document \in FetchedDocuments :
        /\ pc = "awaitFetch"
        /\ AfterFetch(HtmlOf(document))

\* fetch(url) or response.text() rejects: .catch((err) => err) makes the
\* Error the value of htmlText
FetchRejected ==
    /\ pc = "awaitFetch"
    /\ AfterFetch(FetchError)

\* main after gracefullyOpenFile returned
OpenFileReturns ==
    /\ pc = "awaitOpenFile"
    /\ opc = "returned"
    /\ IF openResult.isError
       THEN /\ stderr' = Append(stderr, StderrLine("Error writing output",
                                                   explainErrorCode(openResult)))
            /\ Exit(1)
            /\ UNCHANGED fsCalls
       ELSE /\ fsCalls' = Append(fsCalls, Pending("writeFile", "file"))
            /\ pc' = "awaitWrite"
            /\ UNCHANGED <<stderr, exitCode>>
    /\ UNCHANGED <<callVars, cliInputs, stdout, calls, htmlText, json, options, opc,
                   openResult>>

\* a rejection inside main is never handled: Node reports it and exits with 1
UnhandledRejection ==
    /\ stderr' = Append(stderr, StderrLine("Unhandled rejection", ""))
    /\ Exit(1)
    /\ UNCHANGED stdout

\* fh.writeFile(newContent) settles
WriteFileSettles ==
    \E outcome \in {NoResult} \cup FsErrors :
        /\ pc = "awaitWrite"
        /\ IF outcome.isError
           THEN /\ fsCalls' = Settle(fsCalls, outcome)
                /\ UnhandledRejection
           ELSE /\ fsCalls' = Append(Settle(fsCalls, outcome), Pending("close", "file"))
                /\ pc' = "awaitClose"
                /\ UNCHANGED <<stdout, stderr, exitCode>>
        /\ UNCHANGED <<callVars, cliInputs, calls, htmlText, json, options, opc, openResult>>

\* fh.close() settles
CloseSettles ==
    \E outcome \in {NoResult} \cup FsErrors :
        /\ pc = "awaitClose"
        /\ fsCalls' = Settle(fsCalls, outcome)
        /\ IF outcome.isError
           THEN UnhandledRejection
           ELSE /\ stdout' = Append(stdout, StdoutLine("success", EmptyObject, 0))
                /\ Exit(0)
                /\ UNCHANGED stderr
        /\ UNCHANGED <<callVars, cliInputs, calls, htmlText, json, options, opc, openResult>>

\* argv0 is "node" unless the launcher sets it
Argv0Inputs ==
    {<<"n", "o", "d", "e">>, <<"n", "o", "d", "e", "2", "2">>, FlagH,
     <<"n", "2">> \o FlagHelp}

CliArgsInputs ==
    {<<>>, <<FlagHelp>>, <<FlagH>>, <<FlagP>>, <<FlagPretty>>, <<FlagP, FlagHelp>>}

EnvInputs ==
    [OUTPUT_FILE : {"", "out/useragents.json"},
     PRETTIFY_JSON : {"unset", "true", "false"}]

InitCli ==
    /\ NoCall
    /\ argv0 \in Argv0Inputs
    /\ cliArgs \in CliArgsInputs
    /\ env \in EnvInputs
    /\ isESModule \in BOOLEAN
    /\ pc = "load"
    /\ stdout = <<>> /\ stderr = <<>> /\ exitCode = -1
    /\ calls = <<>> /\ htmlText = NoHtml /\ json = EmptyObject
    /\ OpenIdle

NextCli ==
    \/ HelpExit
    \/ StartMain
    \/ LoadAsLibrary
    \/ FetchFulfilled
    \/ FetchRejected
    \/ OpenStart
    \/ DirectoryAccessSettles
    \/ MkdirSettles
    \/ FileAccessSettles
    \/ OpenSettles
    \/ OpenFileReturns
    \/ WriteFileSettles
    \/ CloseSettles

SpecCli == InitCli /\ [][NextCli]_vars

----------------------------------------------------------------------------
(* Properties of the command-line run (specification SpecCli) *)

\* C2: when fetching the HTML fails, getTablesAsRecord is not invoked, no JSON
\* is printed or written, an error message is printed and the process exits
\* with code 1.
C2_FetchFailureExitsOne ==
    htmlText.isError =>
        /\ ~includes(calls, "getTablesAsRecord")
        /\ \A i \in 1..Len(stdout) : stdout[i].kind # "json"
        /\ \A i \in 1..Len(fsCalls) : fsCalls[i].op # "writeFile"
        /\ pc = "exited" => (exitCode = 1 /\ stderr # <<>>)

\* C8: started with --help or -h on the command line, the program prints the
\* usage text and exits with code 0 before any fetch, extraction or file write.
C8_HelpFlagPrintsUsage ==
    (/\ includes(cliArgs, FlagHelp) \/ includes(cliArgs, FlagH)
     /\ isRunningAsCli
     /\ pc # "load")
    => /\ pc = "exited"
       /\ exitCode = 0
       /\ stdout = <<StdoutLine("usage", EmptyObject, 0)>>
       /\ calls = <<>>
       /\ fsCalls = <<>>

----------------------------------------------------------------------------
(* Properties of gracefullyOpenFile (specification SpecOpen) *)

\* the directory check of the call yielded this Error: the directory was
\* inaccessible with createDirectory false, or its creation failed
DirectoryCheckFailedAt(i) ==
    /\ fsCalls[i].target = "directory"
    /\ fsCalls[i].settled
    /\ fsCalls[i].result.isError
    /\ \/ fsCalls[i].op = "mkdir"
       \/ fsCalls[i].op = "access" /\ ~options.createDirectory

\* the file was found not writable and may not be created
FileCheckFailedAt(i) ==
    /\ fsCalls[i].target = "file"
    /\ fsCalls[i].op = "access"
    /\ fsCalls[i].settled
    /\ fsCalls[i].result.isError
    /\ ~options.createFile

====
